---- MODULE Spec2Model ----
(***************************************************************************)
(* agent-escrow: the escrow ledger of src/unnamed/part_000 (the db module) *)
(* driven by the HTTP endpoints and the MCP tools of src/src/index.ts.     *)
(*                                                                         *)
(* Two operating-system processes share the two SQLite files: the HTTP     *)
(* server and the MCP server.  Each imports the db module, so each runs    *)
(* its own processAutoReleases timer.  Inside one process a handler runs   *)
(* synchronously (better-sqlite3), so a process executes one handler at a  *)
(* time; across processes the unit of interleaving is one SQL statement    *)
(* (or one casinoDb.transaction).  Every action below is one such unit,    *)
(* together with the local computation that precedes it.  The one await    *)
(* inside a handler between a read and a write (the HTTP dispute handler   *)
(* parsing its body) lets only the same process's other handlers in; the   *)
(* database interleavings that allows are among those the other process    *)
(* already produces, so it is not a separate step here.                    *)
(*                                                                         *)
(* Money is kept in millionths of a dollar (the code rounds with           *)
(* toFixed(6)); time is in seconds.                                        *)
(***************************************************************************)
EXTENDS Integers, Sequences, FiniteSets, Bags, TLC

\* ------------------------------------------------------------ bounds
MaxEscrows == 1
MaxHours == 1
MaxFaults == 1

\* ------------------------------------------------- program constants
COMMISSION_RATE == 1
REFERRAL_COMMISSION_RATE == 15
MIN_AMOUNT == 100000
MAX_TIMEOUT_HOURS == 720
DEFAULT_TIMEOUT_HOURS == 24
SECONDS_PER_HOUR == 3600
MIN_DESCRIPTION == 3

NULL == "null"
Procs == {"http", "mcp"}

\* The casino's agents table: this program reads id, referred_by and
\* referral_code and never writes them.
Agents == {"ag_a", "ag_b", "ag_r"}
referred_by == [a \in Agents |-> IF a = "ag_a" THEN "ag_r" ELSE NULL]
referral_code == [a \in Agents |-> IF a = "ag_a" THEN "ref_a" ELSE IF a = "ag_b" THEN "ref_b" ELSE "ref_r"]
InitBalance == [a \in Agents |-> IF a = "ag_a" THEN 20000000 ELSE 0]

\* What the callers send to create.
CreateInputs ==
  [creator : {"ag_a"}, counterparty_agent_id : {"ag_b"}, amount_usd : {10000000},
   description : {3}, timeout_hours : {<<1>>}, referral_code : {NULL, "ref_a"}]
Actors == {"ag_a", "ag_b", "ag_r"}

VARIABLES
  balance,        \* agents.balance_usd of the casino database
  ledger,         \* ledger_entries of the casino database, a bag of rows
  ledgerIdIsKey,  \* whether ledger_entries.id is a key of the casino schema
  escrows,        \* the escrows table: id -> row
  events,         \* the escrow_events table, in insertion order
  stats,          \* the escrow_stats row
  now,            \* the wall clock, seconds
  nextId,         \* how many escrow ids randomUUID has handed out
  issued,         \* the escrow ids a 201 / create_escrow response has told its caller
  pc,             \* per process: the statement its handler executes next
  loc,            \* per process: the handler's local variables and result
  faults          \* how many statements have thrown so far

vars == <<balance, ledger, ledgerIdIsKey, escrows, events, stats, now, nextId, issued, pc, loc, faults>>

\* --------------------------------------------------------- arithmetic
Min(a, b) == IF a < b THEN a ELSE b
Max(a, b) == IF a > b THEN a ELSE b

\* parseFloat((x * pct / 100).toFixed(6)) on millionths: round to nearest.
\* At an exact half the binary value of the double decides which neighbour
\* toFixed picks; the amounts used below produce no halves.
toFixed6Pct(x, pct) == (2 * x * pct + 100) \div 200

\* The seventh digit cut off instead of rounded.
commissionUsd_truncated(amountUsd) == (amountUsd * COMMISSION_RATE) \div 100

commissionUsd(amountUsd) == toFixed6Pct(amountUsd, COMMISSION_RATE)

\* The rate taken as a factor instead of a percentage.
referralCommissionUsd_asFactor(referrerId, commission) ==
  IF referrerId # NULL THEN commission * REFERRAL_COMMISSION_RATE ELSE 0

referralCommissionUsd(referrerId, commission) ==
  IF referrerId # NULL THEN toFixed6Pct(commission, REFERRAL_COMMISSION_RATE) ELSE 0

\* Math.min(Math.max(1, Math.floor(timeout_hours ?? 24)), MAX_TIMEOUT_HOURS);
\* <<>> is an omitted timeout_hours.
timeoutHours(t) ==
  Min(Max(1, IF t = <<>> THEN DEFAULT_TIMEOUT_HOURS ELSE t[1]), MAX_TIMEOUT_HOURS)

\* SELECT id FROM agents WHERE referral_code = ?
AgentByReferralCode(code) ==
  IF \E a \in Agents : referral_code[a] = code
  THEN CHOOSE a \in Agents : referral_code[a] = code
  ELSE NULL

\* The stored referrer taken first, the code only without one.
httpReferrerId_storedFirst(creatorId, code) ==
  IF referred_by[creatorId] # NULL
  THEN referred_by[creatorId]
  ELSE IF code # NULL
  THEN LET r == AgentByReferralCode(code)
       IN IF r # NULL /\ r # creatorId THEN r ELSE NULL
  ELSE NULL

\* POST /escrow/create: a supplied code decides alone; the stored referrer
\* is used only when no code was sent.
httpReferrerId(creatorId, code) ==
  IF code # NULL
  THEN LET r == AgentByReferralCode(code)
       IN IF r # NULL /\ r # creatorId THEN r ELSE NULL
  ELSE referred_by[creatorId]

\* create_escrow (MCP): starts from the stored referrer, a resolving code
\* overrides it.
mcpReferrerId(creatorId, code) ==
  IF code # NULL
  THEN LET r == AgentByReferralCode(code)
       IN IF r # NULL /\ r # creatorId THEN r ELSE referred_by[creatorId]
  ELSE referred_by[creatorId]

resolveReferrer(p, creatorId, code) ==
  IF p = "http" THEN httpReferrerId(creatorId, code) ELSE mcpReferrerId(creatorId, code)

\* ------------------------------------------------------------- ledger
LedgerRow(agent, type, amount, ref) ==
  [agent_id |-> agent, type |-> type, amount |-> amount, reference |-> ref]

\* The rows whose id is reference + "_credit" / "_debit".
RowsOf(ref, type) == {r \in BagToSet(ledger) : r.reference = ref /\ r.type = type}

RECURSIVE CopiesOfAll(_)
CopiesOfAll(S) ==
  IF S = {} THEN 0
  ELSE LET r == CHOOSE x \in S : TRUE
       IN CopiesIn(r, ledger) + CopiesOfAll(S \ {r})

RefCount(ref, type) == CopiesOfAll(RowsOf(ref, type))

\* The transaction trusting the balance check its caller made.
debitAllowed_unchecked(agentId, amount) == agentId \in Agents

\* debitCasinoBalance's guard: if (!agent || agent.balance_usd < amount) return;
debitAllowed(agentId, amount) == agentId \in Agents /\ ~(balance[agentId] < amount)

\* The UPDATE left out.
debitedBalance_skipped(bal, amount) == bal

\* UPDATE agents SET balance_usd = balance_usd - ?
debitedBalance(bal, amount) == bal - amount

\* UPDATE agents SET balance_usd = balance_usd + ?
creditedBalance(bal, amount) == bal + amount

\* The INSERT INTO ledger_entries of a credit violates the key when a row of
\* the same id exists and the casino schema makes id a key; the transaction
\* then rolls back and the error propagates.
creditRejected(ref) == ledgerIdIsKey /\ RefCount(ref, "credit") > 0

\* creditCasinoBalance, committed.
creditCasinoBalance(agentId, amount, ref) ==
  /\ ~creditRejected(ref)
  /\ balance' = [balance EXCEPT ![agentId] = creditedBalance(@, amount)]
  /\ ledger' = ledger (+) SetToBag({LedgerRow(agentId, "credit", amount, ref)})

\* ------------------------------------------------------------- locals
Idle(op, eid, result) ==
  [op |-> op, eid |-> eid, actor |-> NULL, expired |-> {}, result |-> result,
   counterparty |-> NULL, amount |-> 0, timeout |-> 0, referrer |-> NULL,
   commission |-> 0, refCommission |-> 0, clock |-> 0]

Init ==
  /\ balance = InitBalance
  /\ ledger = EmptyBag
  /\ ledgerIdIsKey \in BOOLEAN
  /\ escrows = <<>>
  /\ events = <<>>
  /\ stats = [total_created |-> 0, total_released |-> 0, total_disputed |-> 0,
              total_volume_usd |-> 0, total_commission_usd |-> 0]
  /\ now = 0
  /\ nextId = 0
  /\ issued = {}
  /\ pc = [p \in Procs |-> "idle"]
  /\ loc = [p \in Procs |-> Idle("none", 0, "none")]
  /\ faults = 0

Exists(id) == id \in DOMAIN escrows

Goto(p, label) == pc' = [pc EXCEPT ![p] = label]

\* A handler returns: the response is ready.  (A request rejected by its
\* checks before any statement leaves only its operation and the error code
\* behind.)
Return(p, result) ==
  /\ pc' = [pc EXCEPT ![p] = "done"]
  /\ loc' = [loc EXCEPT ![p].result = result]

Event(id, kind, actor) == [escrow_id |-> id, event |-> kind, actor_id |-> actor]

Open(status) == status \in {"funded", "completed"}

\* ------------------------------------------------------------- create
\* Ids the callers may send as counterparty_agent_id that start with "ag_".
AgFormat == Agents \cup {"ag_x"}

\* The checks of POST /escrow/create and of create_escrow before the debit,
\* in the order each entry point makes them; "ok" when none rejects.
\* The check that creator and counterparty differ left out.
httpCreateCheck_noSelf(in) ==
  IF in.amount_usd < MIN_AMOUNT THEN "invalid_amount"
  ELSE IF in.description < MIN_DESCRIPTION THEN "invalid_description"
  ELSE IF in.counterparty_agent_id \notin AgFormat THEN "invalid_counterparty"
  ELSE IF in.counterparty_agent_id \notin Agents THEN "counterparty_not_found"
  ELSE IF balance[in.creator] < in.amount_usd THEN "insufficient_balance"
  ELSE "ok"

httpCreateCheck(in) ==
  IF in.amount_usd < MIN_AMOUNT THEN "invalid_amount"
  ELSE IF in.description < MIN_DESCRIPTION THEN "invalid_description"
  ELSE IF in.counterparty_agent_id \notin AgFormat THEN "invalid_counterparty"
  ELSE IF in.counterparty_agent_id = in.creator THEN "self_escrow"
  ELSE IF in.counterparty_agent_id \notin Agents THEN "counterparty_not_found"
  ELSE IF balance[in.creator] < in.amount_usd THEN "insufficient_balance"
  ELSE "ok"

\* The tool without its own test that creator and counterparty differ.
mcpCreateCheck_noSelf(in) ==
  IF in.amount_usd < MIN_AMOUNT \/ in.description < MIN_DESCRIPTION THEN "invalid_params"
  ELSE IF in.counterparty_agent_id \notin AgFormat THEN "invalid_counterparty"
  ELSE IF in.counterparty_agent_id \notin Agents THEN "counterparty_not_found"
  ELSE IF balance[in.creator] < in.amount_usd THEN "insufficient_balance"
  ELSE "ok"

mcpCreateCheck(in) ==
  IF in.amount_usd < MIN_AMOUNT \/ in.description < MIN_DESCRIPTION THEN "invalid_params"
  ELSE IF in.counterparty_agent_id \notin AgFormat THEN "invalid_counterparty"
  ELSE IF in.counterparty_agent_id = in.creator THEN "self_escrow"
  ELSE IF in.counterparty_agent_id \notin Agents THEN "counterparty_not_found"
  ELSE IF balance[in.creator] < in.amount_usd THEN "insufficient_balance"
  ELSE "ok"

createCheck(p, in) == IF p = "http" THEN httpCreateCheck(in) ELSE mcpCreateCheck(in)

\* Whether a create call with this input may still arrive: at most max
\* calls get past the checks.
mayCreate(p, in, max) == createCheck(p, in) = "ok" => nextId < max

\* The handler up to the debit: validation, the two agent lookups, the
\* commission split, the referrer and the fresh escrow id.
create(p, in) ==
  /\ pc[p] = "idle"
  /\ LET check == createCheck(p, in)
         referrer == resolveReferrer(p, in.creator, in.referral_code)
         commission == commissionUsd(in.amount_usd)
     IN IF check # "ok"
        THEN /\ pc' = [pc EXCEPT ![p] = "done"]
             /\ loc' = [loc EXCEPT ![p] = Idle("create", 0, check)]
             /\ UNCHANGED nextId
        ELSE /\ nextId' = nextId + 1
             /\ Goto(p, "create_debit")
             /\ loc' = [loc EXCEPT ![p] =
                  [op |-> "create", eid |-> nextId + 1, actor |-> in.creator,
                   expired |-> {}, result |-> "none",
                   counterparty |-> in.counterparty_agent_id,
                   amount |-> in.amount_usd,
                   timeout |-> timeoutHours(in.timeout_hours),
                   referrer |-> referrer, commission |-> commission,
                   refCommission |-> referralCommissionUsd(referrer, commission),
                   clock |-> 0]]
  /\ UNCHANGED <<balance, ledger, ledgerIdIsKey, escrows, events, stats, now, issued, faults>>

\* debitCasinoBalance(creatorId, amountUsd, ..., escrowId): one transaction.
\* When it returns true the handler calls createEscrow, which reads the
\* process's clock (const now = Math.floor(Date.now() / 1000)) before it
\* hands its INSERT to SQLite.
debitCasinoBalance(p) ==
  /\ pc[p] = "create_debit"
  /\ LET l == loc[p]
     IN IF debitAllowed(l.actor, l.amount)
        THEN /\ balance' = [balance EXCEPT ![l.actor] = debitedBalance(@, l.amount)]
             /\ ledger' = ledger (+) SetToBag({LedgerRow(l.actor, "debit", l.amount, <<l.eid, "lock">>)})
             /\ Goto(p, "create_insert")
             /\ loc' = [loc EXCEPT ![p].clock = now]
        ELSE /\ Return(p, "debit_failed")
             /\ UNCHANGED <<balance, ledger>>
  /\ UNCHANGED <<ledgerIdIsKey, escrows, events, stats, now, nextId, issued, faults>>

NoTime == <<>>

\* const autoReleaseAt = now + params.timeoutHours * 3600, from the clock
\* createEscrow read.
autoReleaseAt(l) == l.clock + l.timeout * SECONDS_PER_HOUR

\* The row createEscrow inserts: auto_release_at is the value computed
\* above, created_at (the column's DEFAULT) and funded_at are unixepoch() of
\* the moment the INSERT executes, which waits for the write lock up to
\* busy_timeout.
EscrowRow(l) ==
  [creator_id |-> l.actor, counterparty_id |-> l.counterparty,
   amount_usd |-> l.amount, commission_usd |-> l.commission,
   status |-> "funded", timeout_hours |-> l.timeout,
   created_at |-> now, funded_at |-> <<now>>,
   completed_at |-> NoTime, released_at |-> NoTime, disputed_at |-> NoTime,
   auto_release_at |-> autoReleaseAt(l),
   referrer_id |-> l.referrer, referral_commission_usd |-> l.refCommission]

\* createEscrow, first statement: INSERT INTO escrows.
createEscrow_insert(p) ==
  /\ pc[p] = "create_insert"
  /\ escrows' = escrows @@ (loc[p].eid :> EscrowRow(loc[p]))
  /\ Goto(p, "create_event")
  /\ UNCHANGED <<balance, ledger, ledgerIdIsKey, events, stats, now, nextId, issued, loc, faults>>

\* createEscrow, second statement: INSERT INTO escrow_events ... 'created'.
createEscrow_event(p) ==
  /\ pc[p] = "create_event"
  /\ events' = Append(events, Event(loc[p].eid, "created", loc[p].actor))
  /\ Goto(p, "create_stats")
  /\ UNCHANGED <<balance, ledger, ledgerIdIsKey, escrows, stats, now, nextId, issued, loc, faults>>

\* createEscrow, third statement: UPDATE escrow_stats; then the 201 response.
createEscrow_stats(p) ==
  /\ pc[p] = "create_stats"
  /\ stats' = [stats EXCEPT !.total_created = @ + 1,
                            !.total_volume_usd = @ + loc[p].amount]
  /\ Return(p, "created")
  /\ UNCHANGED <<balance, ledger, ledgerIdIsKey, escrows, events, now, nextId, issued, faults>>

\* The refund made net of the commission.
createRefundAmount_net(l) == l.amount - l.commission

\* What the catch block of create credits back.
createRefundAmount(l) == l.amount

\* catch: creditCasinoBalance(creatorId, amountUsd, ..., escrowId + "_refund").
create_refund(p) ==
  /\ pc[p] = "create_refund"
  /\ creditCasinoBalance(loc[p].actor, createRefundAmount(loc[p]), <<loc[p].eid, "refund">>)
  /\ Return(p, "internal_error")
  /\ UNCHANGED <<ledgerIdIsKey, escrows, events, stats, now, nextId, issued, faults>>

\* ----------------------------------------------- the status transitions
\* getEscrow and the checks every transition handler makes on the row it
\* read: not_found, forbidden (mayAct is the role test), invalid_status.
transitionCheck(id, mayAct, from) ==
  IF ~Exists(id) THEN "not_found"
  ELSE IF ~mayAct THEN "forbidden"
  ELSE IF escrows[id].status \notin from THEN "invalid_status"
  ELSE "ok"

Begin(p, op, id, actor, check, first) ==
  /\ pc[p] = "idle"
  /\ IF check # "ok"
     THEN /\ pc' = [pc EXCEPT ![p] = "done"]
          /\ loc' = [loc EXCEPT ![p] = Idle(op, 0, check)]
     ELSE /\ Goto(p, first)
          /\ loc' = [loc EXCEPT ![p] = [Idle(op, id, "none") EXCEPT !.actor = actor]]
  /\ UNCHANGED <<balance, ledger, ledgerIdIsKey, escrows, events, stats, now, nextId, issued, faults>>

\* UPDATE escrows SET status = to, <stamp> = unixepoch() WHERE id = ? AND status IN from
guardedUpdate(id, from, to, stamp) ==
  IF Exists(id) /\ escrows[id].status \in from
  THEN [escrows EXCEPT ![id] = [[@ EXCEPT !.status = to] EXCEPT ![stamp] = <<now>>]]
  ELSE escrows

\* The handler accepting a completed escrow as well.
complete_fromOpen(p, id, actor) ==
  Begin(p, "complete", id, actor,
        transitionCheck(id, Exists(id) /\ escrows[id].counterparty_id = actor, {"funded", "completed"}),
        "mark_update")

\* POST /escrow/complete/:id and mark_complete, up to markCompleted.
complete(p, id, actor) ==
  Begin(p, "complete", id, actor,
        transitionCheck(id, Exists(id) /\ escrows[id].counterparty_id = actor, {"funded"}),
        "mark_update")

\* markCompleted, first statement.
markCompleted_update(p) ==
  /\ pc[p] = "mark_update"
  /\ escrows' = guardedUpdate(loc[p].eid, {"funded"}, "completed", "completed_at")
  /\ Goto(p, "mark_event")
  /\ UNCHANGED <<balance, ledger, ledgerIdIsKey, events, stats, now, nextId, issued, loc, faults>>

\* markCompleted, second statement: the event row, whatever the update did.
markCompleted_event(p) ==
  /\ pc[p] = "mark_event"
  /\ events' = Append(events, Event(loc[p].eid, "completed", loc[p].actor))
  /\ Return(p, "completed")
  /\ UNCHANGED <<balance, ledger, ledgerIdIsKey, escrows, stats, now, nextId, issued, faults>>

\* The commission forgotten on the timeout path.
netToCreator_gross(e) == e.amount_usd

\* netToCounterparty of the release handler, netToCreator of the sweeper.
netToCounterparty(e) == e.amount_usd - e.commission_usd
netToCreator(e) == e.amount_usd - e.commission_usd

\* houseCommission of the release handler: computed, credited to no account.
houseCommission(e) == e.commission_usd - e.referral_commission_usd

\* if (escrow.referrer_id && escrow.referral_commission_usd > 0)
paysReferrer(e) == e.referrer_id # NULL /\ e.referral_commission_usd > 0

\* The first statement of a release: POST /escrow/release/:id credits the
\* counterparty, release_escrow (MCP) calls releaseEscrow at once.
releaseFirst(p) == IF p = "http" THEN "release_credit_cp" ELSE "release_update"

\* The handler letting either participant release.
release_byParticipant(p, id, actor) ==
  Begin(p, "release", id, actor,
        transitionCheck(id, Exists(id) /\ actor \in {escrows[id].creator_id, escrows[id].counterparty_id},
                        {"funded", "completed"}),
        releaseFirst(p))

\* POST /escrow/release/:id and release_escrow, up to the first statement.
release(p, id, actor) ==
  Begin(p, "release", id, actor,
        transitionCheck(id, Exists(id) /\ escrows[id].creator_id = actor, {"funded", "completed"}),
        releaseFirst(p))

\* creditCasinoBalance(escrow.counterparty_id, netToCounterparty, ..., escrowId + "_release")
release_credit_cp(p) ==
  /\ pc[p] = "release_credit_cp"
  /\ LET e == escrows[loc[p].eid]
     IN /\ creditCasinoBalance(e.counterparty_id, netToCounterparty(e), <<loc[p].eid, "release">>)
        /\ Goto(p, IF paysReferrer(e) THEN "release_credit_ref" ELSE "release_update")
  /\ UNCHANGED <<ledgerIdIsKey, escrows, events, stats, now, nextId, issued, loc, faults>>

\* creditCasinoBalance(escrow.referrer_id, escrow.referral_commission_usd, ..., escrowId + "_refcom")
release_credit_ref(p) ==
  /\ pc[p] = "release_credit_ref"
  /\ LET e == escrows[loc[p].eid]
     IN creditCasinoBalance(e.referrer_id, e.referral_commission_usd, <<loc[p].eid, "refcom">>)
  /\ Goto(p, "release_update")
  /\ UNCHANGED <<ledgerIdIsKey, escrows, events, stats, now, nextId, issued, loc, faults>>

\* releaseEscrow, first statement.
releaseEscrow_update(p) ==
  /\ pc[p] = "release_update"
  /\ escrows' = guardedUpdate(loc[p].eid, {"funded", "completed"}, "released", "released_at")
  /\ Goto(p, "release_event")
  /\ UNCHANGED <<balance, ledger, ledgerIdIsKey, events, stats, now, nextId, issued, loc, faults>>

\* releaseEscrow, second statement.
releaseEscrow_event(p) ==
  /\ pc[p] = "release_event"
  /\ events' = Append(events, Event(loc[p].eid, "released", loc[p].actor))
  /\ Goto(p, "release_stats")
  /\ UNCHANGED <<balance, ledger, ledgerIdIsKey, escrows, stats, now, nextId, issued, loc, faults>>

\* releaseEscrow, third statement; then the response.
releaseEscrow_stats(p) ==
  /\ pc[p] = "release_stats"
  /\ stats' = [stats EXCEPT !.total_released = @ + 1,
                            !.total_commission_usd = @ + escrows[loc[p].eid].commission_usd]
  /\ Return(p, "released")
  /\ UNCHANGED <<balance, ledger, ledgerIdIsKey, escrows, events, now, nextId, issued, faults>>

\* POST /escrow/dispute/:id and dispute_escrow, up to disputeEscrow.
dispute(p, id, actor) ==
  Begin(p, "dispute", id, actor,
        transitionCheck(id, Exists(id) /\ actor \in {escrows[id].creator_id, escrows[id].counterparty_id},
                        {"funded", "completed"}),
        "dispute_update")

\* disputeEscrow, first statement.
disputeEscrow_update(p) ==
  /\ pc[p] = "dispute_update"
  /\ escrows' = guardedUpdate(loc[p].eid, {"funded", "completed"}, "disputed", "disputed_at")
  /\ Goto(p, "dispute_event")
  /\ UNCHANGED <<balance, ledger, ledgerIdIsKey, events, stats, now, nextId, issued, loc, faults>>

\* disputeEscrow, second statement.
disputeEscrow_event(p) ==
  /\ pc[p] = "dispute_event"
  /\ events' = Append(events, Event(loc[p].eid, "disputed", loc[p].actor))
  /\ Goto(p, "dispute_stats")
  /\ UNCHANGED <<balance, ledger, ledgerIdIsKey, escrows, stats, now, nextId, issued, loc, faults>>

\* disputeEscrow, third statement; then the response.
disputeEscrow_stats(p) ==
  /\ pc[p] = "dispute_stats"
  /\ stats' = [stats EXCEPT !.total_disputed = @ + 1]
  /\ Return(p, "disputed")
  /\ UNCHANGED <<balance, ledger, ledgerIdIsKey, escrows, events, now, nextId, issued, faults>>

\* ------------------------------------------------------- the sweeper
\* The comparison made strict.
deadlinePassed_strict(e, t) == e.auto_release_at < t

\* auto_release_at <= ?
deadlinePassed(e, t) == e.auto_release_at <= t

\* The SELECT without its status filter.
expiredEscrows_anyStatus ==
  {id \in DOMAIN escrows : deadlinePassed(escrows[id], now)}

\* SELECT * FROM escrows WHERE status IN ('funded', 'completed') AND auto_release_at <= now
expiredEscrows ==
  {id \in DOMAIN escrows : Open(escrows[id].status) /\ deadlinePassed(escrows[id], now)}

\* for (const escrow of expired): the next row of the result, in whatever
\* order SQLite returned them; the timer callback ends when none is left.
\* The rows' columns other than status and the stamps are never updated, so
\* the handlers' copies of them are read from the table.
sweepNext(p, rest) ==
  IF rest = {}
  THEN /\ pc' = [pc EXCEPT ![p] = "idle"]
       /\ loc' = [loc EXCEPT ![p] = Idle("none", 0, "none")]
  ELSE \E id \in rest :
         /\ Goto(p, "sweep_credit_creator")
         /\ loc' = [loc EXCEPT ![p] = [Idle("sweep", id, "none") EXCEPT !.expired = rest \ {id}]]

\* processAutoReleases: the timer fires (every 5 minutes and at start) and
\* the SELECT runs.
processAutoReleases(p) ==
  /\ pc[p] = "idle"
  /\ expiredEscrows # {}
  /\ sweepNext(p, expiredEscrows)
  /\ UNCHANGED <<balance, ledger, ledgerIdIsKey, escrows, events, stats, now, nextId, issued, faults>>

\* creditCasinoBalance(escrow.creator_id, netToCreator, ..., escrow.id + "_timeout")
sweep_credit_creator(p) ==
  /\ pc[p] = "sweep_credit_creator"
  /\ LET e == escrows[loc[p].eid]
     IN /\ creditCasinoBalance(e.creator_id, netToCreator(e), <<loc[p].eid, "timeout">>)
        /\ Goto(p, IF paysReferrer(e) THEN "sweep_credit_ref" ELSE "refund_update")
  /\ UNCHANGED <<ledgerIdIsKey, escrows, events, stats, now, nextId, issued, loc, faults>>

\* creditCasinoBalance(escrow.referrer_id, escrow.referral_commission_usd, ..., escrow.id + "_refcom")
sweep_credit_ref(p) ==
  /\ pc[p] = "sweep_credit_ref"
  /\ LET e == escrows[loc[p].eid]
     IN creditCasinoBalance(e.referrer_id, e.referral_commission_usd, <<loc[p].eid, "refcom">>)
  /\ Goto(p, "refund_update")
  /\ UNCHANGED <<ledgerIdIsKey, escrows, events, stats, now, nextId, issued, loc, faults>>

\* The refund also moving the deadline to the moment of the refund.
refundedRow_movesDeadline(e) ==
  [e EXCEPT !.status = "refunded", !.released_at = <<now>>, !.auto_release_at = now + 1]

\* UPDATE escrows SET status = 'refunded', released_at = unixepoch() WHERE id = ?
refundedRow(e) == [e EXCEPT !.status = "refunded", !.released_at = <<now>>]

\* refundEscrow, first statement.
refundEscrow_update(p) ==
  /\ pc[p] = "refund_update"
  /\ escrows' = [escrows EXCEPT ![loc[p].eid] = refundedRow(@)]
  /\ Goto(p, "refund_event")
  /\ UNCHANGED <<balance, ledger, ledgerIdIsKey, events, stats, now, nextId, issued, loc, faults>>

\* refundEscrow, second statement; then the next row of the batch.
refundEscrow_event(p) ==
  /\ pc[p] = "refund_event"
  /\ events' = Append(events, Event(loc[p].eid, "refunded", NULL))
  /\ sweepNext(p, loc[p].expired)
  /\ UNCHANGED <<balance, ledger, ledgerIdIsKey, escrows, stats, now, nextId, issued, faults>>

\* ---------------------------------------------------------- failures
CreatePersistPcs == {"create_insert", "create_event", "create_stats"}
ReleasePcs == {"release_credit_cp", "release_credit_ref", "release_update", "release_event", "release_stats"}
DisputePcs == {"dispute_update", "dispute_event", "dispute_stats"}
SweepPcs == {"sweep_credit_creator", "sweep_credit_ref", "refund_update", "refund_event"}
CreditPcs == {"create_refund", "release_credit_cp", "release_credit_ref", "sweep_credit_creator", "sweep_credit_ref"}

\* The ledger reference of the credit a process is about to make.
creditRef(p) ==
  <<loc[p].eid,
    CASE pc[p] = "create_refund" -> "refund"
      [] pc[p] = "release_credit_cp" -> "release"
      [] pc[p] = "sweep_credit_creator" -> "timeout"
      [] OTHER -> "refcom">>

\* The sweeper's try / catch put around the loop instead of inside it.
catch_aroundLoop(p) ==
  IF pc[p] \in CreatePersistPcs
  THEN Goto(p, "create_refund") /\ UNCHANGED loc
  ELSE IF pc[p] \in SweepPcs
  THEN sweepNext(p, {})
  ELSE IF pc[p] \in ReleasePcs
  THEN Return(p, IF p = "http" THEN "release_failed" ELSE "internal_error")
  ELSE IF pc[p] \in DisputePcs /\ p = "mcp"
  THEN Return(p, "internal_error")
  ELSE Return(p, "uncaught")

\* The release handler's catch block logging the error and going on to
\* releaseEscrow.
catch_releaseGoesOn(p) ==
  IF pc[p] \in CreatePersistPcs
  THEN Goto(p, "create_refund") /\ UNCHANGED loc
  ELSE IF pc[p] \in SweepPcs
  THEN sweepNext(p, loc[p].expired)
  ELSE IF pc[p] \in ReleasePcs
  THEN Goto(p, "release_update") /\ UNCHANGED loc
  ELSE IF pc[p] \in DisputePcs /\ p = "mcp"
  THEN Return(p, "internal_error")
  ELSE Return(p, "uncaught")

\* Where control goes when the statement a process is at throws: the catch
\* block around it, or the framework's error response when there is none.
catch(p) ==
  IF pc[p] \in CreatePersistPcs
  THEN Goto(p, "create_refund") /\ UNCHANGED loc
  ELSE IF pc[p] \in SweepPcs
  THEN sweepNext(p, loc[p].expired)
  ELSE IF pc[p] \in ReleasePcs
  THEN Return(p, IF p = "http" THEN "release_failed" ELSE "internal_error")
  ELSE IF pc[p] \in DisputePcs /\ p = "mcp"
  THEN Return(p, "internal_error")
  ELSE Return(p, "uncaught")

\* A statement fails (SQLITE_BUSY, disk, a constraint): nothing is written.
throws(p) ==
  /\ pc[p] \notin {"idle", "done"}
  /\ faults < MaxFaults
  /\ faults' = faults + 1
  /\ catch(p)
  /\ UNCHANGED <<balance, ledger, ledgerIdIsKey, escrows, events, stats, now, nextId, issued>>

\* A credit whose ledger row id already exists, under a schema that makes
\* the id a key: the transaction rolls back and throws.
creditCasinoBalance_duplicate(p) ==
  /\ pc[p] \in CreditPcs
  /\ creditRejected(creditRef(p))
  /\ catch(p)
  /\ UNCHANGED <<balance, ledger, ledgerIdIsKey, escrows, events, stats, now, nextId, issued, faults>>

\* ------------------------------------------------------------ the rest
\* The response leaves; the process takes the next request or timer.  The
\* response to a successful create is where callers learn the escrow's id.
respond(p) ==
  /\ pc[p] = "done"
  /\ pc' = [pc EXCEPT ![p] = "idle"]
  /\ loc' = [loc EXCEPT ![p] = Idle("none", 0, "none")]
  /\ issued' = IF loc[p].op = "create" /\ loc[p].result = "created"
               THEN issued \cup {loc[p].eid} ELSE issued
  /\ UNCHANGED <<balance, ledger, ledgerIdIsKey, escrows, events, stats, now, nextId, faults>>

\* Time passes, an hour at a time.
Tick ==
  /\ now < MaxHours * SECONDS_PER_HOUR
  /\ now' = now + SECONDS_PER_HOUR
  /\ UNCHANGED <<balance, ledger, ledgerIdIsKey, escrows, events, stats, nextId, issued, pc, loc, faults>>

EscrowIds == 1..MaxEscrows

\* The ids a caller can send: those a create response returned, and an id
\* no escrow has.
RequestIds == issued \cup {0}

\* One statement of a handler in flight, outside the catch blocks.
Statement(p) ==
  \/ debitCasinoBalance(p)
  \/ createEscrow_insert(p)
  \/ createEscrow_event(p)
  \/ createEscrow_stats(p)
  \/ markCompleted_update(p)
  \/ markCompleted_event(p)
  \/ release_credit_cp(p)
  \/ release_credit_ref(p)
  \/ releaseEscrow_update(p)
  \/ releaseEscrow_event(p)
  \/ releaseEscrow_stats(p)
  \/ disputeEscrow_update(p)
  \/ disputeEscrow_event(p)
  \/ disputeEscrow_stats(p)
  \/ sweep_credit_creator(p)
  \/ sweep_credit_ref(p)
  \/ refundEscrow_update(p)
  \/ refundEscrow_event(p)
  \/ creditCasinoBalance_duplicate(p)
  \/ respond(p)

\* One statement of a handler in flight, the create handlers' catch block
\* included.
Step(p) ==
  \/ Statement(p)
  \/ create_refund(p)

\* A request arrives.
Request(p) ==
  \/ \E in \in CreateInputs : mayCreate(p, in, MaxEscrows) /\ create(p, in)
  \/ \E id \in RequestIds, a \in Actors : complete(p, id, a)
  \/ \E id \in RequestIds, a \in Actors : release(p, id, a)
  \/ \E id \in RequestIds, a \in Actors : dispute(p, id, a)

Next ==
  \/ \E p \in Procs : Request(p)
  \/ \E p \in Procs : processAutoReleases(p)
  \/ \E p \in Procs : Step(p)
  \/ \E p \in Procs : throws(p)
  \/ Tick

Spec == Init /\ [][Next]_vars

\* The requests an escrow's two parties send about the ids they were told.
Parties == {"ag_a", "ag_b"}

PartyRequest(p) ==
  \/ \E in \in CreateInputs : mayCreate(p, in, MaxEscrows) /\ create(p, in)
  \/ \E id \in issued, a \in Parties : complete(p, id, a)
  \/ \E id \in issued, a \in Parties : release(p, id, a)
  \/ \E id \in issued, a \in Parties : dispute(p, id, a)

\* The program with failing statements, driven by the parties alone.
FaultNext ==
  \/ \E p \in Procs : PartyRequest(p)
  \/ \E p \in Procs : processAutoReleases(p)
  \/ \E p \in Procs : Step(p)
  \/ \E p \in Procs : throws(p)
  \/ Tick

FaultSpec == Init /\ [][FaultNext]_vars

\* The same program when no statement fails: the create handlers' catch
\* block is never entered.
NextNoFaults ==
  \/ \E p \in Procs : Request(p)
  \/ \E p \in Procs : processAutoReleases(p)
  \/ \E p \in Procs : Statement(p)
  \/ Tick

RaceSpec == Init /\ [][NextNoFaults]_vars

\* Scheduling: a handler in flight runs to its end (the statements are
\* synchronous), and each process's setInterval timer keeps firing between
\* its requests.
Fairness ==
  \A p \in Procs : WF_vars(Statement(p)) /\ SF_vars(processAutoReleases(p))

LiveSpec == Init /\ [][NextNoFaults]_vars /\ Fairness

\* ------------------------------------------------ the create handlers
\* The create handlers alone, over every kind of input the callers can
\* send: amounts below, at and above the minimum (0.05, 0.10, 1.234567, 10,
\* 100 and 300 dollars), a description too short, well-formed, malformed,
\* unknown and self counterparties, and no referral code, the creator's
\* own, another agent's and one no agent has (the creator's stored referrer
\* is ag_r).
AllCreateInputs ==
  [creator : {"ag_a"},
   counterparty_agent_id : {"ag_b", "ag_a", "ag_x", "bob"},
   amount_usd : {50000, 100000, 1234567, 10000000, 100000000, 300000000},
   description : {2, 3},
   timeout_hours : {<<1>>},
   referral_code : {NULL, "ref_a", "ref_b", "ref_x"}]

\* Opening balances that cover every amount above but the largest.
RichBalance == [a \in Agents |-> IF a = "ag_a" THEN 200000000 ELSE 0]

CreateInit ==
  /\ balance = RichBalance
  /\ ledger = EmptyBag
  /\ ledgerIdIsKey \in BOOLEAN
  /\ escrows = <<>>
  /\ events = <<>>
  /\ stats = [total_created |-> 0, total_released |-> 0, total_disputed |-> 0,
              total_volume_usd |-> 0, total_commission_usd |-> 0]
  /\ now = 0
  /\ nextId = 0
  /\ issued = {}
  /\ pc = [p \in Procs |-> "idle"]
  /\ loc = [p \in Procs |-> Idle("none", 0, "none")]
  /\ faults = 0

\* One statement of a create handler in flight.
CreateStatement(p) ==
  \/ debitCasinoBalance(p)
  \/ createEscrow_insert(p)
  \/ createEscrow_event(p)
  \/ createEscrow_stats(p)
  \/ create_refund(p)
  \/ respond(p)

CreateNext ==
  \/ \E p \in Procs : \E in \in AllCreateInputs : mayCreate(p, in, MaxEscrows) /\ create(p, in)
  \/ \E p \in Procs : CreateStatement(p)
  \/ \E p \in Procs : throws(p)

CreateSpec == CreateInit /\ [][CreateNext]_vars

\* ---------------------------------------- the sweeper over two escrows
\* The locals of a create of the standard 10 dollars for one hour.
BatchLocals(id, referrer) ==
  [Idle("create", id, "created") EXCEPT
     !.actor = "ag_a", !.counterparty = "ag_b", !.amount = 10000000,
     !.timeout = 1, !.referrer = referrer,
     !.commission = commissionUsd(10000000),
     !.refCommission = referralCommissionUsd(referrer, commissionUsd(10000000))]

\* The state two successful creates leave behind: escrow 1 with the
\* creator's stored referrer, escrow 2 without one, both funded.
BatchInit ==
  /\ now = 0
  /\ balance = [InitBalance EXCEPT !["ag_a"] = debitedBalance(debitedBalance(@, 10000000), 10000000)]
  /\ ledger = SetToBag({LedgerRow("ag_a", "debit", 10000000, <<1, "lock">>),
                        LedgerRow("ag_a", "debit", 10000000, <<2, "lock">>)})
  /\ ledgerIdIsKey \in BOOLEAN
  /\ escrows = (1 :> EscrowRow(BatchLocals(1, "ag_r"))) @@ (2 :> EscrowRow(BatchLocals(2, NULL)))
  /\ events = <<Event(1, "created", "ag_a"), Event(2, "created", "ag_a")>>
  /\ stats = [total_created |-> 2, total_released |-> 0, total_disputed |-> 0,
              total_volume_usd |-> 20000000, total_commission_usd |-> 0]
  /\ nextId = 2
  /\ issued = {1, 2}
  /\ pc = [p \in Procs |-> "idle"]
  /\ loc = [p \in Procs |-> Idle("none", 0, "none")]
  /\ faults = 0

\* One statement of a sweeper run in flight.
BatchStatement(p) ==
  \/ sweep_credit_creator(p)
  \/ sweep_credit_ref(p)
  \/ refundEscrow_update(p)
  \/ refundEscrow_event(p)
  \/ creditCasinoBalance_duplicate(p)

\* The two processes' timers alone, with both escrows running out.
BatchNext ==
  \/ \E p \in Procs : processAutoReleases(p)
  \/ \E p \in Procs : BatchStatement(p)
  \/ \E p \in Procs : throws(p)
  \/ Tick

BatchSpec == BatchInit /\ [][BatchNext]_vars

\* ------------------------------------- concurrent creates of one creator
MaxCreates == 3

\* Creates of 10 and of 15 dollars by ag_a, who opens with 20: any two of
\* them pass the handlers' balance check together, and only two of 10 can
\* both be paid.
DebitInputs ==
  [creator : {"ag_a"}, counterparty_agent_id : {"ag_b"}, amount_usd : {10000000, 15000000},
   description : {3}, timeout_hours : {<<1>>}, referral_code : {NULL}]

DebitNext ==
  \/ \E p \in Procs : \E in \in DebitInputs : mayCreate(p, in, MaxCreates) /\ create(p, in)
  \/ \E p \in Procs : CreateStatement(p)
  \/ \E p \in Procs : throws(p)

DebitSpec == Init /\ [][DebitNext]_vars

\* =====================================================================
\* The claims
\* =====================================================================
Row(id) == escrows[id]
Finished(p, op, result) == pc[p] = "done" /\ loc[p].op = op /\ loc[p].result = result

RECURSIVE SumAmounts(_)
SumAmounts(S) ==
  IF S = {} THEN 0
  ELSE LET r == CHOOSE x \in S : TRUE
       IN r.amount * CopiesIn(r, ledger) + SumAmounts(S \ {r})

\* Every balance is the opening balance plus the ledger's credits minus its
\* debits for that account.
BalancesFollowLedger ==
  \A a \in Agents :
    balance[a] = InitBalance[a]
                 + SumAmounts({r \in BagToSet(ledger) : r.agent_id = a /\ r.type = "credit"})
                 - SumAmounts({r \in BagToSet(ledger) : r.agent_id = a /\ r.type = "debit"})

\* C1: for every escrow at most one of release / autoRefund moves money:
\* the counterparty's release credit and the creator's timeout refund are
\* never both in the ledger.
C1_ReleaseXorRefund ==
  \A id \in DOMAIN escrows :
    ~(RefCount(<<id, "release">>, "credit") > 0 /\ RefCount(<<id, "timeout">>, "credit") > 0)

\* C2: terminal states are absorbing: a status of released or refunded
\* never changes again.
C2_TerminalAbsorbing ==
  [][\A id \in DOMAIN escrows :
       Row(id).status \in {"released", "refunded"} => escrows'[id].status = Row(id).status]_vars

\* C3: a release that reports success, through either entry point, has
\* credited the counterparty amount - commission and, when the escrow pays a
\* referrer, the referrer referral_commission.
C3_ReleaseCredits ==
  \A p \in Procs :
    Finished(p, "release", "released") =>
      LET id == loc[p].eid
          e == Row(id)
      IN /\ LedgerRow(e.counterparty_id, "credit", e.amount_usd - e.commission_usd, <<id, "release">>)
              \in BagToSet(ledger)
         /\ paysReferrer(e) =>
              LedgerRow(e.referrer_id, "credit", e.referral_commission_usd, <<id, "refcom">>)
                \in BagToSet(ledger)

\* C4: a create that succeeds has debited the creator exactly amount (one
\* debit row of amount for the creator, no compensating credit, balances in
\* step with the ledger), and its record is in the store with the supplied
\* creator, counterparty and amount; a record enters the store as funded.
C4_CreateDebitsAmount ==
  /\ [](/\ BalancesFollowLedger
        /\ \A p \in Procs :
             Finished(p, "create", "created") =>
               LET id == loc[p].eid
               IN /\ Exists(id)
                  /\ Row(id).creator_id = loc[p].actor
                  /\ Row(id).counterparty_id = loc[p].counterparty
                  /\ Row(id).amount_usd = loc[p].amount
                  /\ RowsOf(<<id, "lock">>, "debit") = {LedgerRow(loc[p].actor, "debit", loc[p].amount, <<id, "lock">>)}
                  /\ RefCount(<<id, "lock">>, "debit") = 1
                  /\ RefCount(<<id, "refund">>, "credit") = 0)
  /\ [][\A id \in EscrowIds : ~Exists(id) /\ id \in DOMAIN escrows' => escrows'[id].status = "funded"]_vars

C4_Witness ==
  \E p \in Procs : Finished(p, "create", "created") /\ balance[loc[p].actor] = InitBalance[loc[p].actor] - loc[p].amount

\* C5: a create whose record could not be persisted after the debit, and
\* that returned its error, has reversed the debit: one debit row and one
\* refund row of exactly amount for the creator, balances in step with the
\* ledger.
C5_CreateFailureRefunds ==
  /\ BalancesFollowLedger
  /\ \A p \in Procs :
       Finished(p, "create", "internal_error") =>
         LET id == loc[p].eid
         IN /\ RowsOf(<<id, "lock">>, "debit") = {LedgerRow(loc[p].actor, "debit", loc[p].amount, <<id, "lock">>)}
            /\ RefCount(<<id, "lock">>, "debit") = 1
            /\ RowsOf(<<id, "refund">>, "credit") = {LedgerRow(loc[p].actor, "credit", loc[p].amount, <<id, "refund">>)}
            /\ RefCount(<<id, "refund">>, "credit") = 1

C5_Witness ==
  \E p \in Procs : Finished(p, "create", "internal_error") /\ balance[loc[p].actor] = InitBalance[loc[p].actor]

\* C6: no state shows a status change without its balance movement, or the
\* movement without the status: an escrow is released exactly when its
\* release credit is in the ledger, and refunded exactly when its timeout
\* refund is.
C6_StatusAgreesWithMovement ==
  \A id \in DOMAIN escrows :
    /\ Row(id).status = "released" <=> RefCount(<<id, "release">>, "credit") > 0
    /\ Row(id).status = "refunded" <=> RefCount(<<id, "timeout">>, "credit") > 0

CreditKinds == {"release", "timeout", "refcom"}

\* C7: a disputed escrow stays disputed and no credit is issued on its
\* account.
C7_DisputedBlocks ==
  [][\A id \in DOMAIN escrows :
       Row(id).status = "disputed" =>
         /\ escrows'[id].status = "disputed"
         /\ \A k \in CreditKinds : RefCount(<<id, k>>, "credit")' = RefCount(<<id, k>>, "credit")]_vars

Due(id) == Exists(id) /\ Open(Row(id).status) /\ Row(id).auto_release_at <= now
Settled(id) == Exists(id) /\ Row(id).status \in {"refunded", "released", "disputed"}

\* C9: an escrow that is funded or completed with its deadline passed is
\* eventually refunded, unless it is released or disputed first, when the
\* timers keep firing and no statement fails.
C9_DueIsEventuallyRefunded ==
  \A id \in EscrowIds : Due(id) ~> Settled(id)

C9_Witness ==
  \E id \in DOMAIN escrows :
    /\ Row(id).status = "refunded"
    /\ Row(id).auto_release_at <= now
    /\ RefCount(<<id, "release">>, "credit") = 0
    /\ \A e \in 1..Len(events) : events[e].event \notin {"released", "disputed"}

\* C10: a status becomes refunded only once the deadline has passed and
\* only from funded or completed.
C10_RefundOnlyWhenDue ==
  [][\A id \in DOMAIN escrows :
       Row(id).status # "refunded" /\ escrows'[id].status = "refunded" =>
         /\ now >= Row(id).auto_release_at
         /\ Row(id).status \in {"funded", "completed"}]_vars

\* C11: in every escrow record 0 <= referral_commission <= commission <=
\* amount.
C11_CommissionOrdered ==
  \A id \in DOMAIN escrows :
    /\ 0 <= Row(id).referral_commission_usd
    /\ Row(id).referral_commission_usd <= Row(id).commission_usd
    /\ Row(id).commission_usd <= Row(id).amount_usd

C11_Witness ==
  \E id \in DOMAIN escrows :
    /\ Row(id).amount_usd = MIN_AMOUNT
    /\ Row(id).referrer_id # NULL
    /\ 0 < Row(id).referral_commission_usd
    /\ Row(id).referral_commission_usd < Row(id).commission_usd
    /\ Row(id).commission_usd < Row(id).amount_usd

\* What a rejected call leaves alone: the escrow records, the event log and
\* the stats; and with them every balance and the ledger.
StoreUnchanged == UNCHANGED <<escrows, events, stats>>
NothingMoved == UNCHANGED <<balance, ledger, escrows, events, stats>>

\* C12: a status becomes completed only from funded and only by the
\* statement of a markComplete called by the escrow's counterparty; a
\* markComplete by any other actor returns forbidden, one by the
\* counterparty on an escrow that is not funded (a second markComplete
\* included) returns invalid_status, and both leave the records, the event
\* log and the stats unchanged.
C12_MarkComplete ==
  [][/\ \A id \in DOMAIN escrows :
          Row(id).status # "completed" /\ escrows'[id].status = "completed" =>
            /\ Row(id).status = "funded"
            /\ \E p \in Procs : /\ pc[p] = "mark_update"
                                 /\ pc'[p] = "mark_event"
                                 /\ loc[p].eid = id
                                 /\ loc[p].actor = Row(id).counterparty_id
     /\ \A p \in Procs, id \in DOMAIN escrows, a \in Actors :
          complete(p, id, a) =>
            /\ a # Row(id).counterparty_id =>
                 Finished(p, "complete", "forbidden")' /\ StoreUnchanged
            /\ a = Row(id).counterparty_id /\ Row(id).status # "funded" =>
                 Finished(p, "complete", "invalid_status")' /\ StoreUnchanged]_vars

C12_Witness ==
  \E p \in Procs, id \in DOMAIN escrows :
    /\ Finished(p, "complete", "invalid_status")
    /\ Row(id).status = "completed"
    /\ \E e \in 1..Len(events) : events[e] = Event(id, "completed", Row(id).counterparty_id)

\* C13: a release called by anyone but the creator on a funded or completed
\* escrow returns forbidden and leaves every balance, the ledger, the
\* records, the event log and the stats unchanged.
C13_ReleaseForbidden ==
  [][\A p \in Procs, id \in DOMAIN escrows, a \in Actors :
       release(p, id, a) /\ a # Row(id).creator_id /\ Open(Row(id).status) =>
         Finished(p, "release", "forbidden")' /\ NothingMoved]_vars

C13_Witness ==
  \E p \in Procs, id \in DOMAIN escrows :
    /\ Finished(p, "release", "forbidden")
    /\ Open(Row(id).status)
    /\ RefCount(<<id, "release">>, "credit") = 0

Terminal == {"released", "refunded"}

\* C14: on a released or refunded escrow a release by the creator and a
\* dispute by a participant return invalid_status and leave every balance,
\* the ledger, the records, the event log and the stats unchanged; and the
\* sweeper's SELECT never returns such an escrow, so a run that starts over
\* it does nothing to it.
C14_TerminalRejects ==
  /\ [](\A id \in DOMAIN escrows : Row(id).status \in Terminal => id \notin expiredEscrows)
  /\ [][\A p \in Procs, id \in DOMAIN escrows, a \in Actors :
          Row(id).status \in Terminal =>
            /\ processAutoReleases(p) => loc'[p].eid # id /\ id \notin loc'[p].expired
            /\ release(p, id, a) /\ a = Row(id).creator_id =>
                 Finished(p, "release", "invalid_status")' /\ NothingMoved
            /\ dispute(p, id, a) /\ a \in {Row(id).creator_id, Row(id).counterparty_id} =>
                 Finished(p, "dispute", "invalid_status")' /\ NothingMoved]_vars

C14_Witness ==
  \E p \in Procs, id \in DOMAIN escrows :
    /\ Finished(p, "dispute", "invalid_status")
    /\ Row(id).status \in Terminal
    /\ deadlinePassed(Row(id), now)

\* C15: a dispute that goes through sets the status to disputed, adds
\* exactly one to total_disputed and moves no funds: the statement of
\* disputeEscrow that updates the record leaves it disputed, the one that
\* updates the stats adds one, and no statement of the handler changes a
\* balance or the ledger.
C15_DisputeEffect ==
  [][\A p \in Procs :
       /\ pc[p] = "dispute_update" /\ pc'[p] = "dispute_event" =>
            escrows'[loc[p].eid].status = "disputed"
       /\ pc[p] = "dispute_stats" /\ pc'[p] = "done" /\ loc'[p].result = "disputed" =>
            stats'.total_disputed = stats.total_disputed + 1
       /\ pc[p] \in DisputePcs /\ pc'[p] # pc[p] => UNCHANGED <<balance, ledger>>]_vars

\* The operations that take an escrow out of funded / completed for good.
Closing == {"release", "dispute"}
Succeeded(p, id) ==
  /\ pc[p] = "done"
  /\ loc[p].eid = id
  /\ \/ loc[p].op = "release" /\ loc[p].result = "released"
     \/ loc[p].op = "dispute" /\ loc[p].result = "disputed"
     \/ loc[p].op = "complete" /\ loc[p].result = "completed"

\* C16: of two transition attempts racing on one escrow only one is
\* reported as a success: never do both processes hold a success response
\* for the same escrow when both operations are a release or a dispute, or
\* both are a markComplete.
C16_OneWinner ==
  \A id \in DOMAIN escrows :
    ~(/\ Succeeded("http", id)
      /\ Succeeded("mcp", id)
      /\ \/ {loc["http"].op, loc["mcp"].op} \subseteq Closing
         \/ loc["http"].op = "complete" /\ loc["mcp"].op = "complete")

\* C17: a failure while the sweeper processes one escrow does not end its
\* run: a run stops only when no candidate of its SELECT is left, and after
\* a statement that throws it goes on with another of the remaining
\* candidates, from that candidate's first statement.
C17_BatchContinues ==
  [][\A p \in Procs :
       pc[p] \in SweepPcs =>
         /\ pc'[p] = "idle" => loc[p].expired = {}
         /\ (throws(p) \/ creditCasinoBalance_duplicate(p)) /\ loc[p].expired # {} =>
              /\ pc'[p] = "sweep_credit_creator"
              /\ loc'[p].eid \in loc[p].expired
              /\ loc'[p].expired = loc[p].expired \ {loc'[p].eid}]_vars

C17_Witness ==
  \E p \in Procs, failed \in DOMAIN escrows :
    /\ faults = 1
    /\ pc[p] = "refund_event"
    /\ loc[p].eid # failed
    /\ Row(failed).status = "funded"
    /\ RefCount(<<failed, "timeout">>, "credit") = 1
    /\ RefCount(<<failed, "refcom">>, "credit") = 0
    /\ paysReferrer(Row(failed))
    /\ \A q \in Procs \ {p} : pc[q] = "idle"

\* C18: however often the sweeper runs, and also after a run that failed
\* part-way through an escrow, the creator's timeout refund and the
\* referrer's commission are credited at most once per escrow, and a
\* refunded record is not changed again.
C18_SweeperIdempotent ==
  /\ [](\A id \in DOMAIN escrows :
          /\ RefCount(<<id, "timeout">>, "credit") <= 1
          /\ RefCount(<<id, "refcom">>, "credit") <= 1)
  /\ [][\A id \in DOMAIN escrows :
          Row(id).status = "refunded" => escrows'[id] = Row(id)]_vars

\* C19: a create call whose amount is below the minimum, whose description is
\* too short, whose counterparty id is malformed, is the creator or is not a
\* known agent, or whose creator holds less than the amount, ends at once with
\* an error and changes no balance, no ledger row, no escrow record, no event,
\* no stats counter and issues no escrow id.  (A call either goes on to the
\* debit, and then its input is none of these, or it ends there with an
\* error and nothing changed.)
RejectedBeforeDebit(in) ==
  \/ in.amount_usd < MIN_AMOUNT
  \/ in.description < MIN_DESCRIPTION
  \/ in.counterparty_agent_id \notin AgFormat
  \/ in.counterparty_agent_id = in.creator
  \/ in.counterparty_agent_id \notin Agents
  \/ balance[in.creator] < in.amount_usd

CreateErrors ==
  {"invalid_amount", "invalid_description", "invalid_params", "invalid_counterparty",
   "self_escrow", "counterparty_not_found", "insufficient_balance"}

C19_RejectedCreate ==
  [][\A p \in Procs :
       pc[p] = "idle" /\ loc'[p].op = "create" =>
         \/ /\ pc'[p] = "create_debit"
            /\ \A in \in AllCreateInputs : create(p, in) => ~RejectedBeforeDebit(in)
         \/ /\ pc'[p] = "done"
            /\ loc'[p].result \in CreateErrors
            /\ NothingMoved
            /\ UNCHANGED <<nextId, issued>>]_vars

C19_Witness ==
  /\ Finished("http", "create", "self_escrow")
  /\ Finished("mcp", "create", "insufficient_balance")
  /\ balance = RichBalance
  /\ ledger = EmptyBag
  /\ escrows = <<>>
  /\ events = <<>>
  /\ stats.total_created = 0

\* C20: in every escrow record the counterparty's net amount, the referral
\* commission and the house's share add up to the amount; the commission is
\* 1% of the amount and the referral commission 15% of the commission, both
\* to the nearest millionth, and the referral commission is 0 without a
\* referrer.  $100 with a referrer splits into 99.00 / 0.15 / 0.85 and $10
\* without one into 9.90 / 0 / 0.10.
NearestPct(v, x, pct) == 100 * v - pct * x \in -50 .. 50

C20_SplitExact ==
  \A id \in DOMAIN escrows :
    LET e == Row(id)
        split == <<netToCounterparty(e), e.referral_commission_usd, houseCommission(e)>>
    IN /\ split[1] + split[2] + split[3] = e.amount_usd
       /\ \A i \in 1 .. 3 : split[i] >= 0
       /\ NearestPct(e.commission_usd, e.amount_usd, 1)
       /\ e.referrer_id # NULL => NearestPct(e.referral_commission_usd, e.commission_usd, 15)
       /\ e.referrer_id = NULL => e.referral_commission_usd = 0
       /\ e.amount_usd = 100000000 /\ e.referrer_id # NULL => split = <<99000000, 150000, 850000>>
       /\ e.amount_usd = 10000000 /\ e.referrer_id = NULL => split = <<9900000, 0, 100000>>

C20_Witness ==
  \E id \in DOMAIN escrows :
    /\ Row(id).amount_usd = 100000000
    /\ Row(id).referrer_id = "ag_r"
    /\ Row(id).referral_commission_usd = 150000
    /\ houseCommission(Row(id)) = 850000

\* C21: every escrow record holds a timeout_hours between 1 and 720, and its
\* auto_release_at is its created_at plus timeout_hours * 3600.
C21_TimeoutAndDeadline ==
  \A id \in DOMAIN escrows :
    /\ Row(id).timeout_hours \in 1 .. MAX_TIMEOUT_HOURS
    /\ Row(id).auto_release_at = Row(id).created_at + Row(id).timeout_hours * SECONDS_PER_HOUR

\* C22: a debit either takes exactly the amount from the account and
\* returns true, or changes nothing and returns false; no balance is ever
\* negative, and while only creates run the amounts of the creates that
\* succeeded add up to no more than the creator's opening balance.
C22_DebitAllOrNothing ==
  /\ [](\A a \in Agents : balance[a] >= 0)
  /\ [](stats.total_volume_usd <= InitBalance["ag_a"])
  /\ [][\A p \in Procs :
          pc[p] = "create_debit" /\ pc'[p] # "create_debit" /\ faults' = faults =>
            LET l == loc[p]
            IN \/ /\ balance[l.actor] >= l.amount
                  /\ balance' = [balance EXCEPT ![l.actor] = @ - l.amount]
                  /\ RefCount(<<l.eid, "lock">>, "debit")' = 1
                  /\ pc'[p] = "create_insert"
               \/ /\ balance[l.actor] < l.amount
                  /\ UNCHANGED <<balance, ledger>>
                  /\ Finished(p, "create", "debit_failed")']_vars

C22_Witness ==
  \E p, q \in Procs :
    /\ Finished(p, "create", "debit_failed")
    /\ Finished(q, "create", "created")
    /\ balance["ag_a"] = InitBalance["ag_a"] - loc[q].amount
    /\ loc[p].amount + loc[q].amount > InitBalance["ag_a"]

\* C23: when the referrer credit of a release fails after the counterparty
\* credit was applied, the call ends with an error, the counterparty credit
\* stays in the ledger and on the balance, and the escrow record is left as
\* it was (not released).
C23_ReleaseCreditFails ==
  [][\A p \in Procs :
       pc[p] = "release_credit_ref" /\ (throws(p) \/ creditCasinoBalance_duplicate(p)) =>
         LET id == loc[p].eid
             e == Row(id)
         IN /\ Finished(p, "release", "release_failed")'
            /\ LedgerRow(e.counterparty_id, "credit", netToCounterparty(e), <<id, "release">>)
                 \in BagToSet(ledger')
            /\ UNCHANGED <<balance, ledger, escrows>>]_vars

C23_Witness ==
  \E p \in Procs :
    /\ Finished(p, "release", "release_failed")
    /\ RefCount(<<loc[p].eid, "release">>, "credit") = 1
    /\ RefCount(<<loc[p].eid, "refcom">>, "credit") = 0
    /\ Row(loc[p].eid).status \in {"funded", "completed"}
    /\ balance[Row(loc[p].eid).counterparty_id] = netToCounterparty(Row(loc[p].eid))

\* C24: a supplied referral code that belongs to an account other than the
\* creator makes that account the escrow's referrer, whatever referrer the
\* creator has stored; any other referrer an escrow gets is the stored one,
\* and only when no such code came; the referral commission is 15% of the
\* commission with a referrer and 0 without; the record carries the
\* referrer and commission so resolved.
CodeApplies(in) ==
  \E a \in Agents : referral_code[a] = in.referral_code /\ a # in.creator

C24_ReferrerResolution ==
  /\ [][\A p \in Procs :
          pc[p] = "idle" /\ pc'[p] = "create_debit" =>
            \A in \in AllCreateInputs :
              create(p, in) =>
                LET l == loc'[p]
                IN /\ CodeApplies(in) =>
                        l.referrer \in Agents /\ referral_code[l.referrer] = in.referral_code
                   /\ ~CodeApplies(in) => l.referrer \in {referred_by[in.creator], NULL}
                   /\ l.referrer # NULL => NearestPct(l.refCommission, l.commission, 15)
                   /\ l.referrer = NULL => l.refCommission = 0]_vars
  /\ [][\A p \in Procs :
          pc[p] = "create_insert" /\ pc'[p] = "create_event" =>
            /\ escrows'[loc[p].eid].referrer_id = loc[p].referrer
            /\ escrows'[loc[p].eid].referral_commission_usd = loc[p].refCommission]_vars

C24_Witness ==
  \E id \in DOMAIN escrows :
    /\ referred_by[Row(id).creator_id] = "ag_r"
    /\ Row(id).referrer_id = "ag_b"
    /\ Row(id).referral_commission_usd > 0

\* C25: completed_at, released_at and disputed_at are null in a new record;
\* each is set only by the step that makes the escrow completed, released
\* or disputed respectively, and once set never changes.
Stamps == {"completed_at", "released_at", "disputed_at"}
StampOf(status) ==
  CASE status = "completed" -> "completed_at"
    [] status = "released" -> "released_at"
    [] status = "disputed" -> "disputed_at"
    [] OTHER -> "none"

C25_StampsSetOnce ==
  [][\A id \in DOMAIN escrows' :
       IF id \notin DOMAIN escrows
       THEN \A f \in Stamps : escrows'[id][f] = NoTime
       ELSE \A f \in Stamps :
              escrows'[id][f] # Row(id)[f] =>
                /\ Row(id)[f] = NoTime
                /\ escrows'[id].status # Row(id).status
                /\ StampOf(escrows'[id].status) = f]_vars

\* C26: once a record is in the store it stays there, and no step changes
\* its creator, counterparty, amount, commission, referrer, referral
\* commission, timeout_hours, created_at or auto_release_at (nor funded_at):
\* steps change only status, completed_at, released_at and disputed_at.
Fixed(e) ==
  <<e.creator_id, e.counterparty_id, e.amount_usd, e.commission_usd, e.referrer_id,
    e.referral_commission_usd, e.timeout_hours, e.created_at, e.funded_at, e.auto_release_at>>

C26_FixedAtCreation ==
  [][\A id \in DOMAIN escrows :
       /\ id \in DOMAIN escrows'
       /\ Fixed(escrows'[id]) = Fixed(Row(id))]_vars

C26_Witness ==
  \E id \in DOMAIN escrows :
    /\ Row(id).status = "refunded"
    /\ Row(id).completed_at # NoTime
    /\ Row(id).released_at # NoTime
    /\ Fixed(Row(id)) = <<"ag_a", "ag_b", 10000000, 100000, "ag_r", 15000, 1, 0, <<0>>, 3600>>

\* C27: the event log only grows; for every escrow it holds one created
\* event, and for each kind of transition one event when
\* that transition took effect on the escrow (or its writer is about to
\* insert it) and none otherwise: an attempt whose update changed no row
\* adds no event.
EventsOf(id, kind) ==
  {i \in 1 .. Len(events) : events[i].escrow_id = id /\ events[i].event = kind}

Writing(id, at) == \E p \in Procs : pc[p] = at /\ loc[p].eid = id

TookEffect(id, kind) ==
  CASE kind = "completed" -> Row(id).completed_at # NoTime
    [] kind = "released" -> Row(id).status = "released"
    [] kind = "disputed" -> Row(id).disputed_at # NoTime
    [] kind = "refunded" -> Row(id).status = "refunded"

EventPc(kind) ==
  CASE kind = "completed" -> "mark_event"
    [] kind = "released" -> "release_event"
    [] kind = "disputed" -> "dispute_event"
    [] kind = "refunded" -> "refund_event"

C27_EventsAuditTransitions ==
  /\ [][Len(events') >= Len(events) /\ SubSeq(events', 1, Len(events)) = events]_vars
  /\ [](\A id \in DOMAIN escrows :
          /\ Cardinality(EventsOf(id, "created")) = (IF Writing(id, "create_event") THEN 0 ELSE 1)
          /\ \A kind \in {"completed", "released", "disputed", "refunded"} :
               /\ Cardinality(EventsOf(id, kind)) <= 1
               /\ EventsOf(id, kind) # {} => TookEffect(id, kind)
               /\ TookEffect(id, kind) => EventsOf(id, kind) # {} \/ Writing(id, EventPc(kind)))

\* C28: in every escrow record the creator and the counterparty differ; a
\* create call naming the creator as counterparty is rejected by either
\* entry point (with self_escrow when nothing else is wrong with it) and
\* writes nothing.
OtherwiseValid(in) ==
  /\ in.amount_usd >= MIN_AMOUNT
  /\ in.description >= MIN_DESCRIPTION
  /\ balance[in.creator] >= in.amount_usd

SelfInputs == {in \in AllCreateInputs : in.counterparty_agent_id = in.creator}

C28_CreatorIsNotCounterparty ==
  /\ [](\A id \in DOMAIN escrows : Row(id).creator_id # Row(id).counterparty_id)
  /\ [](\A p \in Procs : loc[p].op = "create" /\ pc[p] # "done" => loc[p].actor # loc[p].counterparty)
  /\ [][\A p \in Procs :
          pc[p] = "idle" /\ loc'[p].op = "create" =>
            \A in \in SelfInputs :
              create(p, in) =>
                /\ pc'[p] = "done"
                /\ OtherwiseValid(in) => loc'[p].result = "self_escrow"
                /\ NothingMoved]_vars

C28_Witness ==
  /\ Finished("mcp", "create", "self_escrow")
  /\ Finished("http", "create", "self_escrow")
  /\ escrows = <<>>
  /\ ledger = EmptyBag

\* C29: for every escrow id the ledger's credits that refer to it (create
\* refund, release, timeout refund, referral commission) add up to no more
\* than the debits that refer to it.
MovedFor(id, type) ==
  SumAmounts({r \in BagToSet(ledger) : r.type = type /\ r.reference[1] = id})

C29_NoMoneyCreated ==
  \A id \in 1 .. nextId : MovedFor(id, "credit") <= MovedFor(id, "debit")

\* C30: a create call that has made its compensating refund and returned
\* its error has left no record of that escrow in the store.
C30_RefundedCreateLeavesNoRow ==
  \A p \in Procs :
    Finished(p, "create", "internal_error") /\ RefCount(<<loc[p].eid, "refund">>, "credit") > 0 =>
      ~Exists(loc[p].eid)

\* C31: the counters follow the transitions that took effect: total_created
\* is the number of records and total_volume_usd the sum of their amounts,
\* total_released the number of escrows that were released and
\* total_commission_usd the sum of their commissions, total_disputed the
\* number of escrows that were disputed; each counter may lag only by the
\* handlers that have made their transition and are about to write it, and
\* an attempt whose update changed no row raises none.
RECURSIVE SumOver(_, _)
SumOver(S, field) ==
  IF S = {} THEN 0
  ELSE LET id == CHOOSE x \in S : TRUE
       IN Row(id)[field] + SumOver(S \ {id}, field)

WritersAt(ids, pcs) == {p \in Procs : pc[p] \in pcs /\ loc[p].eid \in ids}

\* The counter is at most the escrows that can have made the transition, and
\* at least those that certainly made it, less the handlers still writing.
Tracks(counter, made, atMost, pcs) ==
  /\ counter <= Cardinality(atMost)
  /\ Cardinality(made) <= counter + Cardinality(WritersAt(made, pcs))

C31_CountersTrackTransitions ==
  LET isReleased == {id \in DOMAIN escrows : Row(id).status = "released"}
      wasReleased == {id \in DOMAIN escrows : Row(id).released_at # NoTime}
      disputed == {id \in DOMAIN escrows : Row(id).disputed_at # NoTime}
  IN /\ Tracks(stats.total_created, DOMAIN escrows, DOMAIN escrows, {"create_event", "create_stats"})
     /\ stats.total_volume_usd <= SumOver(DOMAIN escrows, "amount_usd")
     /\ Tracks(stats.total_released, isReleased, wasReleased, {"release_event", "release_stats"})
     /\ stats.total_commission_usd <= SumOver(wasReleased, "commission_usd")
     /\ Tracks(stats.total_disputed, disputed, disputed, {"dispute_event", "dispute_stats"})

\* C32: POST /escrow/create and create_escrow are the same operation: the
\* referrer and the referral commission one of them records for a request
\* are those the other records for the same request from the same state,
\* also when the referral code resolves to no account or to the creator.
Other(p) == CHOOSE q \in Procs : q # p

C32_AdaptersAgree ==
  [][\A p \in Procs :
       pc[p] = "idle" /\ pc'[p] = "create_debit" =>
         \A in \in AllCreateInputs :
           create(p, in) /\ createCheck(Other(p), in) = "ok" =>
             LET theirs == resolveReferrer(Other(p), in.creator, in.referral_code)
             IN /\ loc'[p].referrer = theirs
                /\ loc'[p].refCommission =
                     referralCommissionUsd(theirs, commissionUsd(in.amount_usd))]_vars
====
